---------------------------- MODULE Spec2Model ----------------------------
(***************************************************************************)
(* State-machine model of src/index.js (github-remove-old-branches).       *)
(*                                                                         *)
(* One run of the script: the mode prompt, the run-confirmation prompt,    *)
(* the pagination loop over the closed pull requests (local filter,        *)
(* concurrent getBranch lookups joined by Promise.all, age filter,         *)
(* accumulation, cap), the write of merged-prs.json, the final NUKE prompt *)
(* and the sequential deleteRef loop.                                      *)
(*                                                                         *)
(* Every action is the code that runs between two suspension points        *)
(* (a readline callback, or the continuation of an await).                 *)
(***************************************************************************)
EXTENDS Integers, Sequences, FiniteSets, TLC

VARIABLES
    pc,         \* where the run is suspended, or how it ended
    modeInput,  \* what was typed at the first prompt (src/index.js:42)
    mode,       \* `mode` after defaulting (src/index.js:43-47)
    answer,     \* what was typed at the second prompt (src/index.js:61)
    confirm,    \* what was typed at the final prompt (src/index.js:166)
    page,       \* config.page
    pulls,      \* pulls.data of the page being processed
    lookups,    \* the promises made by .map(async pr => ...), by position
    settled,    \* positions of `lookups` in the order they settled
    mergedPRs,  \* the accumulator
    now,        \* the wall clock, in seconds
    sink,       \* the writes made to ./merged-prs.json, in order
    calls,      \* the API calls issued so far, in order
    listed,     \* how each pulls.list call ended, in order
    existing,   \* numbers of the pull requests whose getBranch call succeeded
    delIdx,     \* position in mergedPRs of the deleteRef call in flight
    delLog,     \* what the deletion loop logged after each call, in order
    exitCode,   \* "running", or the exit code of the process
    env,        \* process.env: the value of each required variable
    remote,     \* the closed pull requests of a repository that is held
                \* fixed while discovery is run twice, by page
    runs        \* the discovery runs made against `remote`, in order

vars == <<pc, modeInput, mode, answer, confirm, page, pulls, lookups, settled,
          mergedPRs, now, sink, calls, listed, existing, delIdx, delLog,
          exitCode, env, remote, runs>>

-----------------------------------------------------------------------------
(* Bounds of the model *)

\* pages of the remote that hold pull requests; every later page is empty
MaxPages == 2

\* closed pull requests the remote holds at most
MaxPRs == 3

\* how many seconds the clock may advance during the run
MaxTicks == 1

\* the clock when the run starts (seconds since the epoch)
Now0 == 1700000000

-----------------------------------------------------------------------------
(* Program constants *)

FORBIDDEN_HEAD_REFS == {"master", "staging"}

ALLOWED_BASE_REFS == {"master"}

MONTH_IN_SECONDS == 2592000

\* parseInt(process.env.AGE_IN_MONTHS, 10) || 3, the variable left unset
AGE_IN_MONTHS == 3

\* parseInt(process.env.MAX_COUNT, 10) || 100, run with MAX_COUNT=2
MAX_COUNT == 2

\* parseInt(process.env.PER_PAGE_COUNT, 10) || 30, run with PER_PAGE_COUNT=2
PER_PAGE_COUNT == 2

-----------------------------------------------------------------------------
(* Inputs *)

\* no line has been read at this prompt yet
NoInput == "<not asked>"

ModeInputs == {"", "DRYRUN", "NUKE", "nuke"}

AnswerInputs == {"", "YES I DO", "yes i do"}

ConfirmInputs == {"NUKE", "nuke", "", "YES I DO"}

\* requiredEnvVars
RequiredEnvVars == {"OWNER", "REPO", "GITHUB_TOKEN"}

\* process.env[envVar] of a variable that is not set
Undefined == "<undefined>"

EnvValues == {Undefined, "", "x"}

\* merged_at of a pull request that was never merged (JSON null)
NullTs == "null"

\* a merged_at string Date.parse cannot read
BadTs == "not-a-date"

\* merged exactly AGE_IN_MONTHS months before the run starts
TsExact == "merged exactly at the threshold"

\* merged one second later than TsExact
TsYoung == "merged one second after the threshold"

MergedAts == {NullTs, BadTs, TsExact, TsYoung}

Heads == {"master", "staging", "feat-a"}

Bases == {"master", "develop"}

\* The pull requests a page may hold: the one that passes every check, and
\* every pull request that differs from it in one field.
PRKinds ==
    { k \in [merged_at : MergedAts, head : Heads, base : Bases] :
        Cardinality({f \in {"merged_at", "head", "base"} :
                       k[f] # [merged_at |-> TsExact, head |-> "feat-a",
                               base |-> "master"][f]}) <= 1 }

Min(a, b) == IF a <= b THEN a ELSE b

\* the pull requests held by a sequence of pages, given their sizes
RECURSIVE Total(_)
Total(sizes) ==
    IF sizes = <<>> THEN 0 ELSE sizes[1] + Total(Tail(sizes))

\* the pull requests the remote has returned so far
Fetched == Total([i \in 1..Len(listed) |-> listed[i].size])

\* pulls.data of page p: at most per_page pull requests, numbered by
\* position, and no more than the remote still holds
PageData(p) ==
    IF p > MaxPages THEN {<<>>}
    ELSE UNION { { [i \in 1..n |->
                      [number    |-> (p - 1) * PER_PAGE_COUNT + i,
                       merged_at |-> ks[i].merged_at,
                       head      |-> ks[i].head,
                       base      |-> ks[i].base]] : ks \in [1..n -> PRKinds] }
                 : n \in 0..Min(PER_PAGE_COUNT, MaxPRs - Fetched) }

\* the values Date.now() may return from here on
ClockReads == { t \in now..(now + 1) : t <= Now0 + MaxTicks }

-----------------------------------------------------------------------------
(* Numbers that may be NaN *)

Num(n) == [nan |-> FALSE, val |-> n]

NaN == [nan |-> TRUE, val |-> 0]

\* Date.parse(pr.merged_at) / 1000
DateParse(s) ==
    CASE s = TsExact -> Num(Now0 - AGE_IN_MONTHS * MONTH_IN_SECONDS)
      [] s = TsYoung -> Num(Now0 - AGE_IN_MONTHS * MONTH_IN_SECONDS + 1)
      [] OTHER       -> NaN

\* (Date.now() - Date.parse(pr.merged_at)) / 1000, in seconds; the age in
\* months is this value over MONTH_IN_SECONDS, kept as an exact fraction
Age(t, merged_at) ==
    LET d == DateParse(merged_at)
    IN  IF d.nan THEN NaN ELSE Num(t - d.val)

-----------------------------------------------------------------------------
(* The checks of the script *)

\* AllRequiredVarsPresent, the token forgotten
AllRequiredVarsPresentNoToken(e) ==
    \A v \in {"OWNER", "REPO"} : e[v] \notin {Undefined, ""}

\* requiredEnvVars.every(envVar => !!process.env[envVar])
AllRequiredVarsPresent(e) ==
    \A v \in RequiredEnvVars : e[v] \notin {Undefined, ""}

\* if (!mode) mode = 'DRYRUN'
DefaultMode(m) == IF m = "" THEN "DRYRUN" ELSE m

\* ['DRYRUN', 'NUKE'].includes(mode)
ModeSupported(m) == m \in {"DRYRUN", "NUKE"}

\* RunConfirmed, the answer compared without regard to case
RunConfirmedIgnoreCase(m, a) ==
    ~(m = "NUKE" /\ a \notin {"YES I DO", "yes i do"})

\* !(mode === 'NUKE' && answer !== 'YES I DO')
RunConfirmed(m, a) == ~(m = "NUKE" /\ a # "YES I DO")

\* NukeConfirmed, the final gate left out
NukeConfirmedAny(c) == c = c

\* !(confirm !== 'NUKE')
NukeConfirmed(c) == c = "NUKE"

\* process.exit(1) at the mode gate and at the run-confirmation gate
GateExitCode == "1"

\* process.exit() at the final gate: no argument and process.exitCode unset,
\* so the process ends with code 0
FinalGateExitCode == "0"

\* LocalFilter, the merged check left out
LocalFilterNoMerged(pr) ==
    /\ pr.head \notin FORBIDDEN_HEAD_REFS
    /\ pr.base \in ALLOWED_BASE_REFS

\* LocalFilter, the forbidden-head check left out
LocalFilterNoForbidden(pr) ==
    /\ pr.merged_at # NullTs
    /\ pr.base \in ALLOWED_BASE_REFS

\* !!pr.merged_at && !FORBIDDEN_HEAD_REFS.includes(pr.head.ref)
\*                && ALLOWED_BASE_REFS.includes(pr.base.ref)
\* (merged_at is null or a non-empty string)
LocalFilter(pr) ==
    /\ pr.merged_at # NullTs
    /\ pr.head \notin FORBIDDEN_HEAD_REFS
    /\ pr.base \in ALLOWED_BASE_REFS

\* what the async mapper resolves to: branchInfo of the response, or the
\* 'Branch not found' sentinel of the catch block
BranchFound == "branch"

BranchNotFound == "Branch not found"

LookupOutcomes == {"found", "notfound", "error"}

Resolve(outcome) == IF outcome = "found" THEN BranchFound ELSE BranchNotFound

\* !(!branchInfo || branchInfo.message === 'Branch not found')
ExistsFilter(r) == r.branchInfo # BranchNotFound

\* the record built by .map(pr => ...) with Date.now() = t
Candidate(r, t) ==
    [number           |-> r.pr.number,
     age              |-> Age(t, r.pr.merged_at),
     branch_name      |-> r.pr.head,
     base_branch_name |-> r.pr.base,
     merged_at        |-> r.pr.merged_at]

\* AgeFilter with > for >=
AgeFilterStrict(c) ==
    /\ ~c.age.nan
    /\ c.age.val > AGE_IN_MONTHS * MONTH_IN_SECONDS

\* AgeFilter written as !(pr.age < AGE_IN_MONTHS), which NaN passes
AgeFilterNotYounger(c) ==
    \/ c.age.nan
    \/ c.age.val >= AGE_IN_MONTHS * MONTH_IN_SECONDS

\* pr.age >= AGE_IN_MONTHS (false for NaN)
AgeFilter(c) ==
    /\ ~c.age.nan
    /\ c.age.val >= AGE_IN_MONTHS * MONTH_IN_SECONDS

\* CapReached with > for >=
CapReachedStrict(n) == n > MAX_COUNT

\* mergedPRs.length >= MAX_COUNT
CapReached(n) == n >= MAX_COUNT

\* NextPage, a page skipped
NextPageSkips(p) == p + 2

\* config.page = config.page + 1
NextPage(p) == p + 1

\* AllSettled, the first promise to settle resolving the await
AnySettled(ps) ==
    \/ Len(ps) = 0
    \/ \E i \in 1..Len(ps) : ps[i].value # "pending"

\* Promise.all resolves once every promise of the array has resolved
AllSettled(ps) == \A i \in 1..Len(ps) : ps[i].value # "pending"

\* PromiseAll, the values collected in the order the promises settled
PromiseAllBySettleOrder(ps, order) ==
    [i \in 1..Len(order) |->
        [pr |-> ps[order[i]].pr, branchInfo |-> ps[order[i]].value]]

\* what await Promise.all(...) evaluates to: the resolved values by position,
\* whatever the order in which the promises settled
PromiseAll(ps, order) ==
    [i \in 1..Len(ps) |-> [pr |-> ps[i].pr, branchInfo |-> ps[i].value]]

\* PageCandidates, one failed lookup losing the whole page
PageCandidatesAllOrNothing(results, t) ==
    IF \E i \in 1..Len(results) : ~ExistsFilter(results[i])
    THEN <<>>
    ELSE SelectSeq([i \in 1..Len(results) |-> Candidate(results[i], t)],
                   AgeFilter)

\* pullRequests after .filter(exists).map(candidate).filter(age)
PageCandidates(results, t) ==
    LET present == SelectSeq(results, ExistsFilter)
        built   == [i \in 1..Len(present) |-> Candidate(present[i], t)]
    IN  SelectSeq(built, AgeFilter)

\* JSON.stringify(mergedPRs, null, 2): one object per record, in order, with
\* the five fields as JSON values
JsonNumber(n) == IF n.nan THEN "null" ELSE "number"

Stringify(list) ==
    [i \in 1..Len(list) |->
        <<list[i].number, JsonNumber(list[i].age), list[i].age.val,
          list[i].branch_name, list[i].base_branch_name, list[i].merged_at>>]

ListCall(p) == [op |-> "list", page |-> p, number |-> 0, ref |-> ""]

GetBranchCall(pr) ==
    [op |-> "getBranch", page |-> 0, number |-> pr.number, ref |-> pr.head]

DeleteRefCall(c) ==
    [op |-> "deleteRef", page |-> 0, number |-> c.number, ref |-> c.branch_name]

-----------------------------------------------------------------------------
(* The run *)

Init ==
    /\ pc = "Start"
    /\ env \in [RequiredEnvVars -> EnvValues]
    /\ remote = <<>>
    /\ runs = <<>>
    /\ modeInput = NoInput
    /\ mode = NoInput
    /\ answer = NoInput
    /\ confirm = NoInput
    /\ page = 1
    /\ pulls = <<>>
    /\ lookups = <<>>
    /\ settled = <<>>
    /\ mergedPRs = <<>>
    /\ now = Now0
    /\ sink = <<>>
    /\ calls = <<>>
    /\ listed = <<>>
    /\ existing = {}
    /\ delIdx = 0
    /\ delLog = <<>>
    /\ exitCode = "running"

\* Complete, rl.close() forgotten: the open readline interface keeps the
\* process alive
CompleteNoClose ==
    /\ pc' = "Open"
    /\ exitCode' = exitCode

\* rl.close() with nothing left pending: the process ends with code 0
Complete ==
    /\ pc' = "Done"
    /\ exitCode' = "0"

\* AfterLoop, the write moved into the dry-run branch
AfterLoopSinkInDryRun(list) ==
    IF mode = "NUKE"
    THEN /\ sink' = sink
         /\ pc' = "AwaitNukeConfirm"
         /\ exitCode' = exitCode
    ELSE /\ sink' = Append(sink, Stringify(list))
         /\ Complete

\* The code after the pagination loop (src/index.js:159-194) up to the next
\* suspension point, `list` being the final value of mergedPRs.
AfterLoop(list) ==
    /\ sink' = Append(sink, Stringify(list))
    /\ IF mode = "NUKE"
       THEN /\ pc' = "AwaitNukeConfirm"
            /\ exitCode' = exitCode
       ELSE Complete

\* AfterListError, the error caught and treated as the end of the data
AfterListErrorBreak ==
    /\ sink' = Append(sink, Stringify(mergedPRs))
    /\ IF mode = "NUKE"
       THEN /\ pc' = "AwaitNukeConfirm"
            /\ exitCode' = exitCode
       ELSE Complete

\* await github.rest.pulls.list(config) throws inside the async callback and
\* nothing catches it: the callback ends there, and the unhandled rejection
\* ends the process with code 1.
AfterListError ==
    /\ sink' = sink
    /\ pc' = "Failed"
    /\ exitCode' = "1"

\* The top level of the script (src/index.js:1-42): the process exits with
\* code 1 when a required variable is missing, otherwise the first
\* rl.question shows the mode prompt.
CheckEnv ==
    /\ pc = "Start"
    /\ IF AllRequiredVarsPresent(env)
       THEN /\ pc' = "SelectMode"
            /\ exitCode' = exitCode
       ELSE /\ pc' = "Aborted"
            /\ exitCode' = "1"
    /\ UNCHANGED <<modeInput, mode, answer, confirm, page, pulls, lookups,
                   settled, mergedPRs, now, sink, calls, listed, existing,
                   delIdx, delLog>>
    /\ UNCHANGED <<env, remote, runs>>

\* The callback of the first rl.question (src/index.js:42-61).
SelectMode ==
    /\ pc = "SelectMode"
    /\ \E m \in ModeInputs :
        /\ modeInput' = m
        /\ mode' = DefaultMode(m)
        /\ IF ModeSupported(DefaultMode(m))
           THEN /\ pc' = "AwaitRunConfirm"
                /\ exitCode' = exitCode
           ELSE /\ pc' = "Aborted"
                /\ exitCode' = GateExitCode
    /\ UNCHANGED <<answer, confirm, page, pulls, lookups, settled, mergedPRs,
                   now, sink, calls, listed, existing, delIdx, delLog>>
    /\ UNCHANGED <<env, remote, runs>>

\* The callback of the second rl.question up to the first await
\* (src/index.js:61-89).
RunConfirm ==
    /\ pc = "AwaitRunConfirm"
    /\ \E a \in AnswerInputs :
        /\ answer' = a
        /\ IF RunConfirmed(mode, a)
           THEN /\ page' = 1
                /\ mergedPRs' = <<>>
                /\ calls' = Append(calls, ListCall(1))
                /\ pc' = "Listing"
                /\ exitCode' = exitCode
           ELSE /\ pc' = "Aborted"
                /\ exitCode' = GateExitCode
                /\ UNCHANGED <<page, mergedPRs, calls>>
    /\ UNCHANGED <<modeInput, mode, confirm, pulls, lookups, settled, now,
                   sink, listed, existing, delIdx, delLog>>
    /\ UNCHANGED <<env, remote, runs>>

\* github.rest.pulls.list rejects (src/index.js:89).
ListFails ==
    /\ pc = "Listing"
    /\ listed' = Append(listed, [page |-> page, result |-> "error", size |-> 0])
    /\ AfterListError
    /\ UNCHANGED <<modeInput, mode, answer, confirm, page, pulls, lookups,
                   settled, mergedPRs, now, calls, existing, delIdx, delLog>>
    /\ UNCHANGED <<env, remote, runs>>

\* github.rest.pulls.list resolves (src/index.js:89-118): an empty page
\* leaves the loop; otherwise the page is filtered and one getBranch call is
\* issued for every pull request kept, before Promise.all is awaited.
ListReturns ==
    /\ pc = "Listing"
    /\ \E data \in PageData(page) :
        /\ listed' = Append(listed, [page |-> page, result |-> "data",
                                     size |-> Len(data)])
        /\ IF Len(data) = 0
           THEN /\ AfterLoop(mergedPRs)
                /\ UNCHANGED <<pulls, lookups, calls>>
           ELSE LET kept == SelectSeq(data, LocalFilter)
                IN  /\ pulls' = data
                    /\ lookups' = [i \in 1..Len(kept) |->
                                     [pr |-> kept[i], value |-> "pending"]]
                    /\ calls' = calls \o [i \in 1..Len(kept) |->
                                            GetBranchCall(kept[i])]
                    /\ pc' = "Looking"
                    /\ UNCHANGED <<sink, exitCode>>
    /\ UNCHANGED <<modeInput, mode, answer, confirm, page, settled, mergedPRs,
                   now, existing, delIdx, delLog>>
    /\ UNCHANGED <<env, remote, runs>>

\* One getBranch call settles (src/index.js:102-117): the mapper resolves to
\* the pull request with branchInfo, or with the sentinel of the catch block.
LookupSettles ==
    /\ pc = "Looking"
    /\ \E i \in 1..Len(lookups), outcome \in LookupOutcomes :
        /\ lookups[i].value = "pending"
        /\ lookups' = [lookups EXCEPT ![i].value = Resolve(outcome)]
        /\ settled' = Append(settled, i)
        /\ existing' = IF outcome = "found"
                       THEN existing \cup {lookups[i].pr.number}
                       ELSE existing
    /\ UNCHANGED <<pc, modeInput, mode, answer, confirm, page, pulls,
                   mergedPRs, now, sink, calls, listed, delIdx, delLog,
                   exitCode>>
    /\ UNCHANGED <<env, remote, runs>>

\* Promise.all resolves, every promise of the page having settled, and the
\* loop body goes on (src/index.js:120-157, then 87-89 or 159-194).
Join ==
    /\ pc = "Looking"
    /\ AllSettled(lookups)
    /\ \E t \in ClockReads :
        LET pullRequests == PageCandidates(PromiseAll(lookups, settled), t)
            merged       == mergedPRs \o pullRequests
        IN  /\ now' = t
            /\ mergedPRs' = merged
            /\ IF CapReached(Len(merged))
               THEN /\ AfterLoop(merged)
                    /\ UNCHANGED <<page, calls>>
               ELSE /\ page' = NextPage(page)
                    /\ calls' = Append(calls, ListCall(NextPage(page)))
                    /\ pc' = "Listing"
                    /\ UNCHANGED <<sink, exitCode>>
    /\ pulls' = <<>>
    /\ lookups' = <<>>
    /\ settled' = <<>>
    /\ UNCHANGED <<modeInput, mode, answer, confirm, listed, existing, delIdx,
                   delLog>>
    /\ UNCHANGED <<env, remote, runs>>

\* What the deletion loop does once the call for position i is over
\* (src/index.js:173-185): the call for the next record, or rl.close().
NextDelete(i) ==
    IF i < Len(mergedPRs)
    THEN /\ delIdx' = i + 1
         /\ calls' = Append(calls, DeleteRefCall(mergedPRs[i + 1]))
         /\ pc' = "Deleting"
         /\ exitCode' = exitCode
    ELSE /\ delIdx' = i
         /\ calls' = calls
         /\ Complete

\* AfterDeleteError without the try/catch: the error ends the callback
AfterDeleteErrorRethrow(i) ==
    /\ delLog' = delLog
    /\ delIdx' = i
    /\ calls' = calls
    /\ pc' = "Failed"
    /\ exitCode' = "1"

\* The catch block of the deletion loop (src/index.js:181-183): the error is
\* logged and the loop goes on.
AfterDeleteError(i) ==
    /\ delLog' = Append(delLog, "An error occurred")
    /\ NextDelete(i)

\* The callback of the final rl.question up to the first await
\* (src/index.js:166-179).
NukeConfirm ==
    /\ pc = "AwaitNukeConfirm"
    /\ \E c \in ConfirmInputs :
        /\ confirm' = c
        /\ IF NukeConfirmed(c)
           THEN NextDelete(0)
           ELSE /\ pc' = "Aborted"
                /\ exitCode' = FinalGateExitCode
                /\ UNCHANGED <<delIdx, calls>>
    /\ UNCHANGED <<modeInput, mode, answer, page, pulls, lookups, settled,
                   mergedPRs, now, sink, listed, existing, delLog>>
    /\ UNCHANGED <<env, remote, runs>>

\* github.rest.git.deleteRef resolves; console.log('Done')
DeleteSucceeds ==
    /\ pc = "Deleting"
    /\ delLog' = Append(delLog, "Done")
    /\ NextDelete(delIdx)
    /\ UNCHANGED <<modeInput, mode, answer, confirm, page, pulls, lookups,
                   settled, mergedPRs, now, sink, listed, existing>>
    /\ UNCHANGED <<env, remote, runs>>

\* github.rest.git.deleteRef rejects
DeleteFails ==
    /\ pc = "Deleting"
    /\ AfterDeleteError(delIdx)
    /\ UNCHANGED <<modeInput, mode, answer, confirm, page, pulls, lookups,
                   settled, mergedPRs, now, sink, listed, existing>>
    /\ UNCHANGED <<env, remote, runs>>

Next ==
    \/ CheckEnv
    \/ SelectMode
    \/ RunConfirm
    \/ ListFails
    \/ ListReturns
    \/ LookupSettles
    \/ Join
    \/ NukeConfirm
    \/ DeleteSucceeds
    \/ DeleteFails

Spec == Init /\ [][Next]_vars

\* Every prompt is eventually answered and every API call eventually
\* settles: a step that can be taken is eventually taken.
FairSpec == Spec /\ WF_vars(Next)

-----------------------------------------------------------------------------
(* Discovery run twice against one repository *)

\* The pull requests a page of the fixed repository may hold, each with
\* whether its head branch exists: the qualifying one with and without its
\* branch, one that is a second too young, and one from a forbidden head.
RemoteKinds ==
    { [merged_at |-> TsExact, head |-> "feat-a", base |-> "master",
       exists |-> TRUE],
      [merged_at |-> TsExact, head |-> "feat-a", base |-> "master",
       exists |-> FALSE],
      [merged_at |-> TsYoung, head |-> "feat-a", base |-> "master",
       exists |-> TRUE],
      [merged_at |-> TsExact, head |-> "master", base |-> "master",
       exists |-> TRUE] }

\* the pull requests the repository holds
RemoteSize == Total([p \in 1..Len(remote) |-> Len(remote[p])])

\* the non-empty pages page p of the repository may be
RemotePages(p) ==
    UNION { { [i \in 1..n |->
                 [number    |-> (p - 1) * PER_PAGE_COUNT + i,
                  merged_at |-> ks[i].merged_at,
                  head      |-> ks[i].head,
                  base      |-> ks[i].base,
                  exists    |-> ks[i].exists]] : ks \in [1..n -> RemoteKinds] }
            : n \in 1..Min(PER_PAGE_COUNT, MaxPRs - RemoteSize) }

\* the readings of Date.now() of one run, one per page, the clock being at
\* `from` when the run starts
ClockSeqs(n, from) ==
    { c \in [1..n -> from..(Now0 + MaxTicks)] :
        /\ n >= 1 => c[1] \in {from, from + 1}
        /\ \A i \in 2..n : c[i] \in {c[i - 1], c[i - 1] + 1} }

\* an order in which the n lookups of a page may settle
SettleOrder(n, reversed) ==
    IF reversed THEN [i \in 1..n |-> n + 1 - i] ELSE [i \in 1..n |-> i]

\* The pagination loop (src/index.js:84-157) run from page p with
\* accumulator acc against the pages `pages`, the clock reading clock[p]
\* when page p is filtered: the final value of mergedPRs.
RECURSIVE Discover(_, _, _, _, _)
Discover(pages, clock, reversed, p, acc) ==
    IF p > Len(pages)
    THEN acc
    ELSE LET kept   == SelectSeq(pages[p], LocalFilter)
             ps     == [i \in 1..Len(kept) |->
                          [pr    |-> kept[i],
                           value |-> Resolve(IF kept[i].exists
                                             THEN "found" ELSE "notfound")]]
             order  == SettleOrder(Len(kept), reversed)
             merged == acc \o PageCandidates(PromiseAll(ps, order), clock[p])
         IN  IF CapReached(Len(merged))
             THEN merged
             ELSE Discover(pages, clock, reversed, NextPage(p), merged)

runVars == <<pc, modeInput, mode, answer, confirm, page, pulls, lookups,
             settled, mergedPRs, now, sink, calls, listed, existing, delIdx,
             delLog, exitCode, env>>

InitTwice ==
    /\ Init
    /\ AllRequiredVarsPresent(env)

\* one more page of closed pull requests in the repository, before any run
AddRemotePage ==
    /\ runs = <<>>
    /\ Len(remote) < MaxPages
    /\ \E data \in RemotePages(Len(remote) + 1) :
           remote' = Append(remote, data)
    /\ UNCHANGED runs
    /\ UNCHANGED runVars

\* one discovery run against the repository as it is
RunDiscovery ==
    /\ Len(runs) < 2
    /\ \E clock \in ClockSeqs(Len(remote),
                               IF runs = <<>> \/ Len(remote) = 0 THEN Now0
                               ELSE runs[Len(runs)].clock[Len(remote)]),
          reversed \in BOOLEAN :
           runs' = Append(runs,
                          [clock |-> clock,
                           reversed |-> reversed,
                           list  |-> Discover(remote, clock, reversed, 1, <<>>)])
    /\ UNCHANGED remote
    /\ UNCHANGED runVars

NextTwice ==
    \/ AddRemotePage
    \/ RunDiscovery

TwiceSpec == InitTwice /\ [][NextTwice]_vars

-----------------------------------------------------------------------------
(* What the claims speak about *)

DeleteCalls == SelectSeq(calls, LAMBDA c : c.op = "deleteRef")

ListCalls == SelectSeq(calls, LAMBDA c : c.op = "list")

Terminal == pc \in {"Done", "Aborted", "Failed"}

\* the pagination loop was left by one of its two break statements
LoopExited ==
    \/ pc \in {"AwaitNukeConfirm", "Deleting", "Done"}
    \/ pc = "Aborted" /\ confirm # NoInput

\* a pulls.list call has failed
ListErrored == \E i \in 1..Len(listed) : listed[i].result = "error"

\* the age threshold, in seconds
ThresholdSeconds == AGE_IN_MONTHS * MONTH_IN_SECONDS

\* the pull request satisfies the five predicates, its lookup having
\* succeeded iff its number is in ex, and the clock reading t
Qualifies(pr, ex, t) ==
    /\ pr.merged_at # NullTs
    /\ pr.head \notin {"master", "staging"}
    /\ pr.base = "master"
    /\ pr.number \in ex
    /\ ~DateParse(pr.merged_at).nan
    /\ t - DateParse(pr.merged_at).val >= ThresholdSeconds

\* the candidates a page should contribute, in page order
Expected(data, ex, t) ==
    LET q == SelectSeq(data, LAMBDA pr : Qualifies(pr, ex, t))
    IN  [i \in 1..Len(q) |->
            [number           |-> q[i].number,
             age              |-> Num(t - DateParse(q[i].merged_at).val),
             branch_name      |-> q[i].head,
             base_branch_name |-> q[i].base,
             merged_at        |-> q[i].merged_at]]

\* the step in which Promise.all resolves
JoinStep == pc = "Looking" /\ pc' # "Looking"

-----------------------------------------------------------------------------
(* C1 *)

\* C1: deleteRef is called only if the mode input was exactly "NUKE", the
\* run-confirmation input exactly "YES I DO" and the final confirmation,
\* asked after discovery finished and the sink was written, exactly "NUKE";
\* in every other run (every DryRun run, every Nuke run with another final
\* confirmation) no deleteRef call is made.
C1_DeleteOnlyAfterThreeConfirmations ==
    /\ DeleteCalls # <<>> =>
           /\ modeInput = "NUKE"
           /\ answer = "YES I DO"
           /\ confirm = "NUKE"
           /\ Len(sink) = 1
    /\ (mode = "DRYRUN" \/ (confirm # NoInput /\ confirm # "NUKE")) =>
           DeleteCalls = <<>>

C1_Witness ==
    /\ pc = "Done"
    /\ Len(DeleteCalls) >= 2
    /\ modeInput = "NUKE" /\ answer = "YES I DO" /\ confirm = "NUKE"

-----------------------------------------------------------------------------
(* C2 *)

\* C2: a pull request whose head branch is master or staging never enters
\* the accumulated candidate list, no lookup is made for it, and deleteRef
\* is never called with master or staging.
C2_ForbiddenHeadNeverCandidate ==
    /\ \A i \in 1..Len(mergedPRs) :
           mergedPRs[i].branch_name \notin {"master", "staging"}
    /\ \A i \in 1..Len(lookups) :
           lookups[i].pr.head \notin {"master", "staging"}
    /\ \A i \in 1..Len(calls) :
           calls[i].op = "deleteRef" => calls[i].ref \notin {"master", "staging"}

\* a page held a merged, old-enough pull request from master against master
\* next to a qualifying one, and only the latter was looked up
C2_Witness ==
    /\ pc = "Looking"
    /\ Len(pulls) = 2
    /\ pulls[1].head = "master" /\ pulls[1].merged_at = TsExact
    /\ pulls[1].base = "master"
    /\ pulls[2].head = "feat-a"
    /\ Len(lookups) = 1
    /\ lookups[1].pr.number = pulls[2].number

-----------------------------------------------------------------------------
(* C3 *)

\* C3: every confirmation-gate rejection (unrecognized mode, run
\* confirmation other than "YES I DO" in Nuke mode, final confirmation other
\* than "NUKE") ends the run with exit code 1, and exit code 0 is produced
\* only by normal completion.
C3_GateRejectionExitsOne ==
    /\ pc = "Aborted" => exitCode = "1"
    /\ exitCode = "0" => pc = "Done"

-----------------------------------------------------------------------------
(* C4 *)

\* the inputs with which the claim says the run proceeds
C4_Proceeds ==
    \/ modeInput \in {"", "DRYRUN"} /\ answer # NoInput
    \/ modeInput = "NUKE" /\ answer = "YES I DO"

\* C4: the first API call is issued iff the mode input is empty or "DRYRUN"
\* (any run confirmation) or the mode input is "NUKE" and the run
\* confirmation "YES I DO", compared case-sensitively; otherwise the run
\* ends Aborted with no API call made.
C4_FirstCallIffConfirmed ==
    /\ calls # <<>> <=> C4_Proceeds
    /\ (answer # NoInput \/ Terminal) /\ ~C4_Proceeds =>
           /\ pc = "Aborted"
           /\ calls = <<>>
           /\ listed = <<>>

C4_Witness ==
    /\ modeInput = "NUKE"
    /\ answer = "yes i do"
    /\ pc = "Aborted"
    /\ calls = <<>>

-----------------------------------------------------------------------------
(* C5 *)

\* every record of the accumulator is old enough, by the age stored in it
\* and by the clock, and its branch was reported as existing
C5_Accumulated ==
    \A i \in 1..Len(mergedPRs) :
        /\ ~mergedPRs[i].age.nan
        /\ mergedPRs[i].age.val >= ThresholdSeconds
        /\ now - DateParse(mergedPRs[i].merged_at).val >= mergedPRs[i].age.val
        /\ mergedPRs[i].number \in existing

\* a looked-up, existing pull request of the page whose age is exactly the
\* threshold when the page is filtered is appended; one that is one second
\* younger is not
C5_Boundary ==
    JoinStep =>
        \A i \in 1..Len(lookups) :
            LET pr  == lookups[i].pr
                age == now' - DateParse(pr.merged_at).val
                in  == \E j \in (Len(mergedPRs) + 1)..Len(mergedPRs') :
                           mergedPRs'[j].number = pr.number
            IN  pr.number \in existing /\ ~DateParse(pr.merged_at).nan =>
                    /\ age = ThresholdSeconds => in
                    /\ age = ThresholdSeconds - 1 => ~in

\* C5: at every point of the run every record of the accumulated list has
\* ageMonths >= ageThresholdMonths, with ageMonths = (now - mergedAt) /
\* 2,592,000 s, and a branch the lookup reported as existing; the boundary is
\* inclusive: age equal to the threshold is included, one second younger is
\* excluded.
C5_AgeAndExistence == [][C5_Accumulated' /\ C5_Boundary]_vars

\* a record whose age is exactly the threshold is in the list, and a pull
\* request whose branch exists was looked up and left out for its age
C5_Witness ==
    /\ \E i \in 1..Len(mergedPRs) : mergedPRs[i].age.val = ThresholdSeconds
    /\ \E i \in 1..Len(calls) :
           /\ calls[i].op = "getBranch"
           /\ calls[i].number \in existing
           /\ \A j \in 1..Len(mergedPRs) : mergedPRs[j].number # calls[i].number
    /\ pc = "Listing"
    /\ now = Now0

-----------------------------------------------------------------------------
(* C6 *)

\* C6: the candidates a fetched page contributes to the accumulator are
\* exactly the pull requests of the page that satisfy the five predicates
\* (merged, head not forbidden, base allowed, lookup succeeded, age >=
\* threshold), in page order, whatever the order in which the lookups
\* settled; a pull request with null merge timestamp is never contributed.
C6_PageContribution ==
    [][ /\ JoinStep => mergedPRs' = mergedPRs \o Expected(pulls, existing, now')
        /\ ~JoinStep => mergedPRs' = mergedPRs
        /\ \A i \in 1..Len(mergedPRs') : mergedPRs'[i].merged_at # NullTs ]_vars

\* both pull requests of page 1 were contributed, in page order
C6_Witness ==
    /\ pc = "AwaitNukeConfirm"
    /\ Len(listed) = 1
    /\ Len(mergedPRs) = 2
    /\ mergedPRs[1].number = 1
    /\ mergedPRs[2].number = 2

-----------------------------------------------------------------------------
(* C7 *)

\* a pulls.list call is issued in this step
C7_NewListCall == Len(ListCalls') > Len(ListCalls)

\* C7: the paginator stops at the first page after which the accumulated
\* count is >= maxCandidates, or at the first empty page, and then never
\* fetches again; the candidates of the page that reaches the cap are all
\* kept, so the final count may exceed maxCandidates.
C7_PaginationStops ==
    [][ /\ C7_NewListCall =>
               /\ Len(mergedPRs') < MAX_COUNT
               /\ listed' # <<>> => listed'[Len(listed')].size > 0
               /\ ~LoopExited
        /\ LoopExited' =>
               /\ ~C7_NewListCall
               /\ \/ Len(mergedPRs') >= MAX_COUNT
                  \/ listed'[Len(listed')].size = 0
        /\ JoinStep =>
               Len(mergedPRs') =
                   Len(mergedPRs) + Len(Expected(pulls, existing, now')) ]_vars

\* the page that reached the cap pushed the count over it, and no page was
\* requested after it
C7_Witness ==
    /\ LoopExited
    /\ Len(mergedPRs) > MAX_COUNT
    /\ Len(ListCalls) = 2
    /\ Len(listed) = 2

-----------------------------------------------------------------------------
(* C8 *)

\* C8: in a Nuke run that passes the final confirmation, deleteRef is
\* attempted exactly once for every record of the candidate list, in list
\* order, whatever subset of the attempts fails, without retry, and the run
\* then completes normally.
C8_EveryCandidateAttemptedOnce ==
    confirm = "NUKE" =>
        /\ delIdx <= Len(mergedPRs)
        /\ DeleteCalls = [i \in 1..delIdx |-> DeleteRefCall(mergedPRs[i])]
        /\ pc \in {"Deleting", "Done"}
        /\ pc = "Deleting" => Len(delLog) = delIdx - 1
        /\ pc = "Done" =>
               /\ delIdx = Len(mergedPRs)
               /\ Len(delLog) = Len(mergedPRs)
               /\ exitCode = "0"

\* three candidates, every deletion failed, the run completed
C8_Witness ==
    /\ pc = "Done"
    /\ confirm = "NUKE"
    /\ Len(mergedPRs) = 3
    /\ Len(DeleteCalls) = 3
    /\ \A i \in 1..Len(delLog) : delLog[i] = "An error occurred"

-----------------------------------------------------------------------------
(* C9 *)

\* C9: whenever discovery finishes, in DryRun and in Nuke mode, the sink is
\* written exactly once, with the accumulated list, before the final prompt
\* and before any deleteRef call; the list the deletion loop iterates is the
\* list that was written.
C9_SinkWrittenOnce ==
    /\ Len(sink) <= 1
    /\ LoopExited <=> Len(sink) = 1
    /\ Len(sink) = 1 => sink[1] = Stringify(mergedPRs)
    /\ DeleteCalls # <<>> =>
           /\ Len(sink) = 1
           /\ Len(DeleteCalls) <= Len(sink[1])
           /\ \A i \in 1..Len(DeleteCalls) :
                  /\ DeleteCalls[i].number = sink[1][i][1]
                  /\ DeleteCalls[i].ref = sink[1][i][4]

C9_Witness ==
    /\ pc = "Deleting"
    /\ Len(sink) = 1
    /\ Len(sink[1]) = 2
    /\ Len(DeleteCalls) = 2

-----------------------------------------------------------------------------
(* C10 *)

\* C10: if the pulls.list call errors on any page, the run aborts: no
\* further list or getBranch call is issued, the sink is not written and no
\* deleteRef call is made, in Nuke mode too and with candidates already
\* accumulated.
C10_ListErrorAborts ==
    [][ /\ ~ListErrored
        /\ ListErrored' =>
               /\ Terminal'
               /\ pc' # "Done"
               /\ sink' = <<>>
               /\ calls' = calls
               /\ mergedPRs' = mergedPRs ]_vars

C10_Witness ==
    /\ ListErrored
    /\ pc = "Failed"
    /\ mode = "NUKE"
    /\ Len(listed) = 2
    /\ Len(mergedPRs) = 1

-----------------------------------------------------------------------------
(* C11 *)

\* numbers of the pull requests of the page whose lookup failed
C11_FailedLookups ==
    { lookups[i].pr.number :
        i \in { j \in 1..Len(lookups) : lookups[j].value = BranchNotFound } }

\* the page without the pull requests whose lookup failed
C11_Others == SelectSeq(pulls, LAMBDA pr : pr.number \notin C11_FailedLookups)

\* C11: when a branch-existence lookup fails or reports not found, only that
\* pull request is dropped: no error reaches the paginator, the other pull
\* requests of the page are filtered as if the failure had not happened, and
\* the run goes on to the next page.
C11_LookupFailureDropsOnlyThatPR ==
    [][ JoinStep =>
          /\ pc' \in {"Listing", "AwaitNukeConfirm", "Done"}
          /\ mergedPRs' =
                 mergedPRs \o
                 Expected(C11_Others,
                          { C11_Others[i].number : i \in 1..Len(C11_Others) },
                          now')
          /\ \A i \in 1..Len(mergedPRs') :
                 mergedPRs'[i].number \notin C11_FailedLookups
          /\ Len(mergedPRs') < MAX_COUNT =>
                 /\ pc' = "Listing"
                 /\ page' = page + 1
                 /\ calls'[Len(calls')] = ListCall(page + 1) ]_vars

\* the lookup for the first pull request of page 1 failed, the second pull
\* request was kept, and page 2 was requested
C11_Witness ==
    /\ pc = "Listing"
    /\ page = 2
    /\ \E i \in 1..Len(calls) : calls[i].op = "getBranch" /\ calls[i].number = 1
    /\ 1 \notin existing
    /\ Len(mergedPRs) = 1
    /\ mergedPRs[1].number = 2

-----------------------------------------------------------------------------
(* C12 *)

\* C12: the page numbers requested from the list call in one run are
\* exactly 1, 2, ..., n in that order, each requested once.
C12_PagesInOrderOnce ==
    /\ ListCalls = [i \in 1..Len(ListCalls) |-> ListCall(i)]
    /\ \A i \in 1..Len(listed) : listed[i].page = i
    /\ ListCalls # <<>> => page = Len(ListCalls)
    /\ Len(listed) <= Len(ListCalls)
    /\ Len(ListCalls) <= Len(listed) + 1

\* pages 1, 2 and 3 were requested and the run is over
C12_Witness ==
    /\ pc = "Done"
    /\ Len(ListCalls) = 3
    /\ Len(listed) = 3
    /\ listed[3].size = 0

-----------------------------------------------------------------------------
(* C14 *)

\* C14: if any of OWNER, REPO or the token is absent, the run ends with exit
\* code 1 before any prompt is shown and before any network call is made.
C14_MissingConfigExitsOne ==
    (\E v \in {"OWNER", "REPO", "GITHUB_TOKEN"} : env[v] = Undefined) =>
        /\ pc \in {"Start", "Aborted"}
        /\ pc = "Aborted" => exitCode = "1"
        /\ pc = "Start" => exitCode = "running"
        /\ modeInput = NoInput
        /\ answer = NoInput
        /\ confirm = NoInput
        /\ calls = <<>>
        /\ listed = <<>>

\* only the token is missing and the run has ended
C14_Witness ==
    /\ env["OWNER"] = "x"
    /\ env["REPO"] = "x"
    /\ env["GITHUB_TOKEN"] = Undefined
    /\ pc = "Aborted"
    /\ exitCode = "1"

-----------------------------------------------------------------------------
(* C15 *)

GetBranchCalls == SelectSeq(calls, LAMBDA c : c.op = "getBranch")

\* positions of the lookups of the page that are in flight
PendingLookups == { i \in 1..Len(lookups) : lookups[i].value = "pending" }

\* the numbers of the pull requests of page p
NumbersOfPage(p) == ((p - 1) * PER_PAGE_COUNT + 1)..(p * PER_PAGE_COUNT)

\* C15: all lookups of a page are issued before the pipeline waits for any
\* of them; the age filter and the append happen only after every lookup of
\* the page has completed; page k+1 is fetched only after page k has been
\* appended, so lookups of two pages are never in flight together; at most
\* one deleteRef call is in flight at any time.
C15_FanOutJoinSequential ==
    [][ /\ Len(GetBranchCalls') > Len(GetBranchCalls) =>
               /\ pc = "Listing" /\ pc' = "Looking"
               /\ Len(GetBranchCalls') = Len(GetBranchCalls) + Len(lookups')
               /\ PendingLookups' = 1..Len(lookups')
        /\ mergedPRs' # mergedPRs => pc = "Looking" /\ PendingLookups = {}
        /\ C7_NewListCall => PendingLookups = {} /\ lookups' = <<>>
        /\ pc' = "Listing" => lookups' = <<>>
        /\ \A i \in 1..Len(lookups') :
               lookups'[i].pr.number \in NumbersOfPage(page')
        /\ Len(DeleteCalls') - Len(delLog') \in {0, 1}
        /\ pc' = "Deleting" <=> Len(DeleteCalls') - Len(delLog') = 1 ]_vars

\* page 1 has been appended and both lookups of page 2 are in flight
C15_Witness ==
    /\ pc = "Looking"
    /\ page = 2
    /\ Len(mergedPRs) = 1
    /\ Len(lookups) = 2
    /\ PendingLookups = {1, 2}

-----------------------------------------------------------------------------
(* C16 *)

\* the three local checks
C16_PassesLocalChecks(pr) ==
    /\ pr.merged_at # NullTs
    /\ pr.head \notin {"master", "staging"}
    /\ pr.base = "master"

\* C16: a lookup is issued for exactly the pull requests of a page that are
\* merged, have a head that is not forbidden and an allowed base, once each,
\* those later dropped for their age included.
C16_LookupsForLocalSurvivors ==
    [][ /\ (pc = "Listing" /\ pc' = "Looking") =>
               LET kept == SelectSeq(pulls', C16_PassesLocalChecks)
               IN  GetBranchCalls' =
                       GetBranchCalls \o
                       [i \in 1..Len(kept) |->
                           [op |-> "getBranch", page |-> 0,
                            number |-> kept[i].number, ref |-> kept[i].head]]
        /\ ~(pc = "Listing" /\ pc' = "Looking") =>
               GetBranchCalls' = GetBranchCalls
        /\ \A i, j \in 1..Len(GetBranchCalls') :
               GetBranchCalls'[i].number = GetBranchCalls'[j].number => i = j
      ]_vars

\* a page of an unmerged pull request and one that is a second too young:
\* the only lookup issued is for the latter
C16_Witness ==
    /\ pc = "Looking"
    /\ now = Now0
    /\ Len(pulls) = 2
    /\ pulls[1].merged_at = NullTs
    /\ pulls[2].merged_at = TsYoung
    /\ Len(lookups) = 1
    /\ lookups[1].pr = pulls[2]
    /\ calls[Len(calls)] = GetBranchCall(pulls[2])

-----------------------------------------------------------------------------
(* C18 *)

-----------------------------------------------------------------------------
(* C19 *)

\* C19: no branch name occurs more than once in the accumulated candidate
\* list, so deleteRef is attempted at most once per branch name, also when
\* two qualifying pull requests share their head branch.
C19_NoBranchTwice ==
    /\ \A i, j \in 1..Len(mergedPRs) :
           mergedPRs[i].branch_name = mergedPRs[j].branch_name => i = j
    /\ \A i, j \in 1..Len(DeleteCalls) :
           DeleteCalls[i].ref = DeleteCalls[j].ref => i = j

-----------------------------------------------------------------------------
(* C20 *)

\* the page without the pull requests whose merge timestamp cannot be parsed
C20_Parseable == SelectSeq(pulls, LAMBDA pr : pr.merged_at # BadTs)

\* C20: a pull request whose merge timestamp cannot be parsed is excluded
\* from the candidates without a fatal error: the rest of its page and of
\* the run proceed as for any other excluded pull request, and its branch is
\* never passed to deleteRef on its account.
C20_UnparseableExcluded ==
    [][ /\ \A i \in 1..Len(mergedPRs') :
               /\ mergedPRs'[i].merged_at # BadTs
               /\ ~mergedPRs'[i].age.nan
        /\ \A i \in 1..Len(DeleteCalls') :
               \E j \in 1..Len(mergedPRs') :
                   /\ mergedPRs'[j].number = DeleteCalls'[i].number
                   /\ mergedPRs'[j].merged_at # BadTs
        /\ (JoinStep /\ \E i \in 1..Len(lookups) :
                            lookups[i].pr.merged_at = BadTs) =>
               /\ pc' \in {"Listing", "AwaitNukeConfirm", "Done"}
               /\ mergedPRs' =
                      mergedPRs \o Expected(C20_Parseable, existing, now')
      ]_vars

\* page 1 held an unparseable pull request whose branch exists, then a
\* qualifying one: only the second was kept and page 2 was requested
C20_Witness ==
    /\ pc = "Listing"
    /\ page = 2
    /\ now > Now0
    /\ {1, 2} \subseteq existing
    /\ Len(mergedPRs) = 1
    /\ mergedPRs[1].number = 2

-----------------------------------------------------------------------------
(* C17 *)

\* C17: with a remote that holds finitely many closed pull requests, every
\* API call returning and every prompt answered, every run eventually
\* reaches a terminal state (completed, or aborted by a gate or by a failed
\* list call).
C17_RunTerminates == <>Terminal

\* a run that went through every page of the remote and every deletion
C17_Witness ==
    /\ pc = "Done"
    /\ Len(listed) = MaxPages + 1
    /\ Len(delLog) >= 1

-----------------------------------------------------------------------------
(* C13 *)

\* the identifying fields of the records of a candidate list
C13_Ident(list) ==
    [i \in 1..Len(list) |->
        <<list[i].number, list[i].branch_name, list[i].base_branch_name,
          list[i].merged_at>>]

\* the pull request is old enough at time t
C13_OldEnough(pr, t) ==
    /\ ~DateParse(pr.merged_at).nan
    /\ t - DateParse(pr.merged_at).val >= ThresholdSeconds

\* no pull request of the repository is too young when the first run starts
\* and old enough when the second run ends
C13_NoCrossing ==
    \A p \in 1..Len(remote) : \A i \in 1..Len(remote[p]) :
        C13_OldEnough(remote[p][i], runs[1].clock[1]) <=>
            C13_OldEnough(remote[p][i], runs[2].clock[Len(remote)])

\* C13: discovery run twice against the same remote state and configuration
\* yields the same candidate list (length, order, number, branch name, base
\* branch, mergedAt), whatever the clock readings and the order in which the
\* lookups settle, provided no pull request crosses the age threshold
\* between the start of the first run and the end of the second.
C13_DiscoveryIdempotent ==
    (Len(runs) = 2 /\ Len(remote) >= 1 /\ C13_NoCrossing) =>
        C13_Ident(runs[1].list) = C13_Ident(runs[2].list)

\* two runs a second apart and with opposite settle orders gave the same two
\* candidates, with different ages
C13_Witness ==
    /\ Len(runs) = 2
    /\ Len(remote) >= 1
    /\ C13_NoCrossing
    /\ runs[1].reversed # runs[2].reversed
    /\ runs[1].clock # runs[2].clock
    /\ Len(runs[1].list) = 2
    /\ runs[1].list # runs[2].list
    /\ C13_Ident(runs[1].list) = C13_Ident(runs[2].list)

=============================================================================
